---- MODULE Spec2Model ----
(***************************************************************************)
(* State-machine model of main/static/main/js/script.js: the splash        *)
(* controller (window 'load' handler and its two nested timers) and the    *)
(* tracking form controller (the DOMContentLoaded handler, the two submit  *)
(* listeners it registers, and the fetch/then/catch promise chain); and of  *)
(* the video pipeline's two PowerShell helpers, run_blender_render.ps1 and  *)
(* run_blender_build.ps1.                                                  *)
(***************************************************************************)
EXTENDS Integers, Sequences, FiniteSets

VARIABLES
    present,          \* ids of the elements the page markup contains
    location,         \* window.location: [pathname, search]
    unloaded,         \* the document was replaced by a navigation
    domReady,         \* DOMContentLoaded has been dispatched
    loaded,           \* window 'load' has been dispatched
    listeners,        \* forms that carry a submit listener
    opacity,          \* splashScreen.style.opacity
    display,          \* splashScreen.style.display
    timers,           \* pending setTimeout callbacks: name -> remaining ms
    elapsed,          \* ms from 'load' to the last pending timer (<= MaxElapsed)
    requests,         \* fetches issued by the tracking form, in issue order
    innerHTML,        \* resultDiv.innerHTML, as a sequence of text pieces
    lastSettled,      \* the request whose callback chain ran most recently
    console,          \* errors passed to console.error
    errors,           \* uncaught exceptions / unhandled rejections, by origin
    submits,          \* submit events dispatched: [track, home]
    trackingIds,      \* values the homepage listener read from its input
    navigations,      \* assignments to window.location.href
    files,            \* paths for which Test-Path is true
    ps,               \* the PowerShell script now running, or Idle
    lastRun,          \* how the last finished script run ended
    runs              \* script runs started

webVars == <<present, location, unloaded, domReady, loaded, listeners, opacity,
             display, timers, elapsed, requests, innerHTML, lastSettled,
             console, errors, submits, trackingIds, navigations>>

pipelineVars == <<files, ps, lastRun, runs>>

vars == <<webVars, pipelineVars>>

pageVars == <<present, unloaded, domReady, loaded, listeners>>
splashVars == <<opacity, display, timers, elapsed>>
trackVars == <<requests, innerHTML, lastSettled, console>>

-----------------------------------------------------------------------------
(* Bounds of the model *)

MaxSubmits == 2
MaxHomeSubmits == 1
MaxElapsed == 5000
MaxRuns == 3

-----------------------------------------------------------------------------
(* JavaScript values, tagged by type *)

Undefined == [t |-> "undefined"]
Null == [t |-> "null"]
Str(s) == [t |-> "string", v |-> s]
Obj(f) == [t |-> "object", f |-> f]

\* Property read `o.k`: a TypeError on null/undefined is reported by CanRead
CanRead(o) == o.t \notin {"undefined", "null"}
Get(o, k) == IF o.t = "object" /\ k \in DOMAIN o.f THEN o.f[k] ELSE Undefined

\* ToString as applied by a template literal's ${...}
ToString(x) ==
    CASE x.t = "string" -> x.v
      [] x.t = "undefined" -> "undefined"
      [] x.t = "null" -> "null"
      [] OTHER -> "[object Object]"

-----------------------------------------------------------------------------
(* The page *)

Elements == {"splash-screen", "tracking-form", "consignment_number",
             "tracking-result", "home-tracking-form", "home-tracking-id"}

\* document.getElementById(id): the element, or null
Element(id) == [t |-> "element", id |-> id]
getElementById(id) == IF id \in present THEN Element(id) ELSE Null

\* Values a user can have typed into a text input (always strings)
InputValues == {"", "ABC123"}

\* Documents the script can be loaded into
Locations ==
    { [pathname |-> "/", search |-> ""],
      [pathname |-> "/track-consignment/", search |-> "?consignment_number=ABC123"] }

Href(loc) == loc.pathname \o loc.search

NoTimers == [dwell |-> -1, fade |-> -1]

NoneSettled == [id |-> 0, outcome |-> [kind |-> "none"]]

\* No script is running / no script has run
Idle == [script |-> "none"]
NoRun == [script |-> "none"]

\* The page, with the video pipeline untouched
Init ==
    /\ files = {} /\ ps = Idle /\ lastRun = NoRun /\ runs = 0
    /\ present \in SUBSET Elements
    /\ location \in Locations
    /\ unloaded = FALSE
    /\ domReady = FALSE
    /\ loaded = FALSE
    /\ listeners = {}
    /\ opacity = ""
    /\ display = ""
    /\ timers = NoTimers
    /\ elapsed = 0
    /\ requests = <<>>
    /\ innerHTML = <<>>
    /\ lastSettled = NoneSettled
    /\ console = {}
    /\ errors = {}
    /\ submits = [track |-> 0, home |-> 0]
    /\ trackingIds = <<>>
    /\ navigations = 0

-----------------------------------------------------------------------------
(* Splash controller *)

\* (variant) a fade that outlasts the CSS transition by a second
FadeDurationDoubled == 2 * 1000

SplashDuration == 3000
FadeDuration == 1000

\* window 'load' listener: schedules the dwell timer when the element exists
Load ==
    /\ ~unloaded /\ domReady /\ ~loaded
    /\ UNCHANGED pipelineVars
    /\ loaded' = TRUE
    /\ timers' = IF getElementById("splash-screen") # Null
                   THEN [timers EXCEPT !.dwell = SplashDuration]
                   ELSE timers
    /\ UNCHANGED <<present, location, unloaded, domReady, listeners, opacity,
                   display, elapsed, trackVars, errors, submits, trackingIds, navigations>>

\* (variant) the outer callback hides the element itself, without a timer
DwellTimeoutHidesAtOnce ==
    /\ ~unloaded
    /\ UNCHANGED pipelineVars
    /\ timers.dwell = 0
    /\ opacity' = "0"
    /\ display' = "none"
    /\ timers' = [timers EXCEPT !.dwell = -1]
    /\ UNCHANGED <<pageVars, location, elapsed, trackVars, errors,
                   submits, trackingIds, navigations>>

\* Outer setTimeout callback: start the fade, schedule the hide
DwellTimeout ==
    /\ ~unloaded
    /\ UNCHANGED pipelineVars
    /\ timers.dwell = 0
    /\ opacity' = "0"
    /\ timers' = [timers EXCEPT !.dwell = -1, !.fade = FadeDuration]
    /\ UNCHANGED <<pageVars, location, display, elapsed, trackVars, errors,
                   submits, trackingIds, navigations>>

\* Inner setTimeout callback: remove the element from display
FadeTimeout ==
    /\ ~unloaded
    /\ UNCHANGED pipelineVars
    /\ timers.fade = 0
    /\ display' = "none"
    /\ timers' = [timers EXCEPT !.fade = -1]
    /\ UNCHANGED <<pageVars, location, opacity, elapsed, trackVars, errors,
                   submits, trackingIds, navigations>>

TimeSteps == {1000}

\* Time passes while a timer is pending; a timer runs when its delay has
\* elapsed, so the clock does not move past a pending timer
Tick ==
    /\ ~unloaded /\ loaded
    /\ UNCHANGED pipelineVars
    /\ timers # NoTimers
    /\ \E d \in TimeSteps :
        /\ elapsed + d <= MaxElapsed
        /\ \A n \in DOMAIN timers : timers[n] = -1 \/ timers[n] >= d
        /\ elapsed' = elapsed + d
        /\ timers' = [n \in DOMAIN timers |->
                        IF timers[n] = -1 THEN -1 ELSE timers[n] - d]
    /\ UNCHANGED <<pageVars, location, opacity, display, trackVars, errors,
                   submits, trackingIds, navigations>>

-----------------------------------------------------------------------------
(* DOMContentLoaded: register the submit listeners of the forms that exist *)

DOMContentLoaded ==
    /\ ~unloaded /\ ~domReady
    /\ UNCHANGED pipelineVars
    /\ domReady' = TRUE
    /\ listeners' = {f \in {"tracking-form", "home-tracking-form"} :
                        getElementById(f) # Null}
    /\ UNCHANGED <<present, location, unloaded, loaded, splashVars, trackVars,
                   errors, submits, trackingIds, navigations>>

-----------------------------------------------------------------------------
(* Rendering into the result panel *)

AlertSuccess == "<div class=\"alert alert-success\">"
AlertDanger == "<div class=\"alert alert-danger\">"
FallbackMessage == "An error occurred. Please try again."

\* (variant) origin and destination interpolated the wrong way round
SuccessPanelSwapped(c) ==
    << AlertSuccess,
       "<h4>Tracking Details for ", ToString(Get(c, "consignment_number")), "</h4>",
       "<p><strong>Status:</strong> ", ToString(Get(c, "status")), "</p>",
       "<p><strong>Origin:</strong> ", ToString(Get(c, "destination")), "</p>",
       "<p><strong>Destination:</strong> ", ToString(Get(c, "origin")), "</p>",
       "<p><strong>Current Location:</strong> ", ToString(Get(c, "current_location")), "</p>",
       "<p><strong>Estimated Delivery:</strong> ", ToString(Get(c, "estimated_delivery")), "</p>",
       "<p><em>Last Updated: ", ToString(Get(c, "updated_at")), "</em></p>",
       "</div>" >>

\* The success template: each heading is followed by the interpolated field
SuccessPanel(c) ==
    << AlertSuccess,
       "<h4>Tracking Details for ", ToString(Get(c, "consignment_number")), "</h4>",
       "<p><strong>Status:</strong> ", ToString(Get(c, "status")), "</p>",
       "<p><strong>Origin:</strong> ", ToString(Get(c, "origin")), "</p>",
       "<p><strong>Destination:</strong> ", ToString(Get(c, "destination")), "</p>",
       "<p><strong>Current Location:</strong> ", ToString(Get(c, "current_location")), "</p>",
       "<p><strong>Estimated Delivery:</strong> ", ToString(Get(c, "estimated_delivery")), "</p>",
       "<p><em>Last Updated: ", ToString(Get(c, "updated_at")), "</em></p>",
       "</div>" >>

\* (variant) the panel ignores the message and shows the fixed text
FailurePanelGeneric(message) == << AlertDanger, FallbackMessage, "</div>" >>

FailurePanel(message) == << AlertDanger, ToString(message), "</div>" >>

FallbackPanel == << AlertDanger, FallbackMessage, "</div>" >>

\* (variant) `resultDiv.innerHTML += html`
AppendInnerHTML(old, html) == old \o html

\* `resultDiv.innerHTML = html`: the new markup replaces the old
SetInnerHTML(old, html) == html

-----------------------------------------------------------------------------
(* The promise chain fetch(...).then(json).then(data => ...).catch(...) *)

\* What a callback does: the markup it assigns to the panel (in order), the
\* errors it logs, and whether it ends by throwing
Threw(e) == [writes |-> <<>>, logged |-> {}, thrown |-> <<e>>]
Wrote(html) == [writes |-> <<html>>, logged |-> {}, thrown |-> <<>>]

TypeError == "TypeError"
SyntaxError == "SyntaxError"

\* .then(data => { ... })
ThenHandler(data, resultDiv) ==
    IF ~CanRead(data) THEN Threw(TypeError)
    ELSE IF Get(data, "status") = Str("success")
    THEN LET c == Get(data, "consignment") IN
         IF ~CanRead(c) \/ ~CanRead(resultDiv) THEN Threw(TypeError)
         ELSE Wrote(SuccessPanel(c))
    ELSE IF ~CanRead(resultDiv) THEN Threw(TypeError)
         ELSE Wrote(FailurePanel(Get(data, "message")))

\* (variant) the catch shows the error itself instead of the fixed text
CatchHandlerVerbose(error, resultDiv) ==
    IF ~CanRead(resultDiv)
    THEN [writes |-> <<>>, logged |-> {error}, thrown |-> <<TypeError>>]
    ELSE [writes |-> << <<AlertDanger, error, "</div>">> >>, logged |-> {error},
          thrown |-> <<>>]

\* .catch(error => { ... })
CatchHandler(error, resultDiv) ==
    IF ~CanRead(resultDiv)
    THEN [writes |-> <<>>, logged |-> {error}, thrown |-> <<TypeError>>]
    ELSE [writes |-> <<FallbackPanel>>, logged |-> {error}, thrown |-> <<>>]

\* The callbacks run for a settled request, composed as the chain composes them
RunChain(outcome, resultDiv) ==
    CASE outcome.kind = "rejected" -> CatchHandler(outcome.reason, resultDiv)
      [] outcome.kind = "malformed" -> CatchHandler(SyntaxError, resultDiv)
      [] OTHER ->
            LET t == ThenHandler(outcome.data, resultDiv) IN
            IF t.thrown = <<>> THEN t
            ELSE LET c == CatchHandler(t.thrown[1], resultDiv) IN
                 [writes |-> t.writes \o c.writes,
                  logged |-> t.logged \cup c.logged,
                  thrown |-> c.thrown]

RECURSIVE ApplyWrites(_, _)
ApplyWrites(html, writes) ==
    IF writes = <<>> THEN html
    ELSE ApplyWrites(SetInnerHTML(html, Head(writes)), Tail(writes))

-----------------------------------------------------------------------------
(* Response bodies the backend can send *)

WellFormed ==
    Obj([consignment_number |-> Str("ABC123"), status |-> Str("In Transit"),
         origin |-> Str("Nagpur"), destination |-> Str("Delhi"),
         current_location |-> Str("Bhopal"),
         estimated_delivery |-> Str("12 Jan 2026"),
         updated_at |-> Str("10 Jan 2026 09:30")])

Partial == Obj([consignment_number |-> Str("ABC123"), status |-> Null])

Bodies ==
    { Obj([status |-> Str("success"), consignment |-> WellFormed]),
      Obj([status |-> Str("success"), consignment |-> Partial]),
      Obj([status |-> Str("success"), consignment |-> Null]),
      Obj([status |-> Str("success")]),
      Obj([status |-> Str("failure"), message |-> Str("Not found"),
           consignment |-> WellFormed]),
      Str("OK"),
      Obj([message |-> Str("Not found")]),
      Null }

RejectReasons == {"timeout", "network down"}

-----------------------------------------------------------------------------
(* Submit events and their default action *)

\* The event a submit listener receives
SubmitEvent == [defaultPrevented |-> FALSE]

\* (variant) the call is missing
PreventDefaultMissing(e) == e

\* e.preventDefault()
PreventDefault(e) == [e EXCEPT !.defaultPrevented = TRUE]

\* Where the browser's own form submission would take the document: the
\* current page with the form data as the query
NativeSubmitUrl(loc) == [pathname |-> loc.pathname, search |-> "?"]

\* After the listener returns (or throws) the browser submits the form itself
\* unless the event's default was prevented
DefaultAction(e) ==
    IF e.defaultPrevented
    THEN UNCHANGED <<location, navigations, unloaded>>
    ELSE /\ location' = NativeSubmitUrl(location)
         /\ navigations' = navigations + 1
         /\ unloaded' = TRUE

-----------------------------------------------------------------------------
(* Tracking form (tracking page) *)

\* (variant) the query is appended to the whole current URL
FetchUrlFromHref(loc, consignmentNumber) ==
    Href(loc) \o "?consignment_number=" \o consignmentNumber

\* The URL of the GET request
FetchUrl(loc, consignmentNumber) ==
    loc.pathname \o "?consignment_number=" \o consignmentNumber

\* (variant) the listener clears the panel before it sends the request
TrackSubmitClearing ==
    /\ ~unloaded
    /\ UNCHANGED pipelineVars
    /\ "tracking-form" \in listeners
    /\ submits.track < MaxSubmits
    /\ submits' = [submits EXCEPT !.track = @ + 1]
    /\ IF getElementById("consignment_number") = Null
         THEN /\ errors' = errors \cup {"tracking-form submit"}
              /\ UNCHANGED <<requests, innerHTML>>
         ELSE /\ \E v \in InputValues :
                    requests' = Append(requests,
                        [url |-> FetchUrl(location, v), value |-> v,
                         resultDiv |-> getElementById("tracking-result"),
                         st |-> "pending", writes |-> 0])
              /\ innerHTML' = IF getElementById("tracking-result") = Null
                                THEN innerHTML ELSE <<>>
              /\ UNCHANGED errors
    /\ DefaultAction(PreventDefault(SubmitEvent))
    /\ UNCHANGED <<present, domReady, loaded, listeners, splashVars,
                   lastSettled, console, trackingIds>>

\* 'submit' listener of the tracking form; preventDefault is its first
\* statement, so it has run also when the read of the input throws
TrackSubmit ==
    /\ ~unloaded
    /\ UNCHANGED pipelineVars
    /\ "tracking-form" \in listeners
    /\ submits.track < MaxSubmits
    /\ submits' = [submits EXCEPT !.track = @ + 1]
    /\ IF getElementById("consignment_number") = Null
         THEN /\ errors' = errors \cup {"tracking-form submit"}
              /\ UNCHANGED requests
         ELSE /\ \E v \in InputValues :
                    requests' = Append(requests,
                        [url |-> FetchUrl(location, v), value |-> v,
                         resultDiv |-> getElementById("tracking-result"),
                         st |-> "pending", writes |-> 0])
              /\ UNCHANGED errors
    /\ DefaultAction(PreventDefault(SubmitEvent))
    /\ UNCHANGED <<present, domReady, loaded, listeners, splashVars, innerHTML,
                   lastSettled, console, trackingIds>>

\* The callbacks of request i run for `outcome`
Settle(i, outcome) ==
    LET r == RunChain(outcome, requests[i].resultDiv) IN
    /\ requests' = [requests EXCEPT ![i].st = "done",
                                    ![i].writes = @ + Len(r.writes)]
    /\ innerHTML' = ApplyWrites(innerHTML, r.writes)
    /\ console' = console \cup r.logged
    /\ errors' = IF r.thrown = <<>> THEN errors
                 ELSE errors \cup {"unhandled rejection"}
    /\ lastSettled' = [id |-> i, outcome |-> outcome]

\* fetch() rejects: the chain skips both then-callbacks and runs the catch
FetchReject ==
    /\ ~unloaded
    /\ UNCHANGED pipelineVars
    /\ \E i \in DOMAIN requests, reason \in RejectReasons :
        /\ requests[i].st = "pending"
        /\ Settle(i, [kind |-> "rejected", reason |-> reason])
    /\ UNCHANGED <<pageVars, location, splashVars, submits, trackingIds, navigations>>

\* fetch() fulfils, `response => response.json()` runs (it touches no state)
\* and the body parses to `data`
JsonResolve ==
    /\ ~unloaded
    /\ UNCHANGED pipelineVars
    /\ \E i \in DOMAIN requests, data \in Bodies :
        /\ requests[i].st = "pending"
        /\ Settle(i, [kind |-> "parsed", data |-> data])
    /\ UNCHANGED <<pageVars, location, splashVars, submits, trackingIds, navigations>>

\* fetch() fulfils and response.json() rejects: the body is not valid JSON
JsonReject ==
    /\ ~unloaded
    /\ UNCHANGED pipelineVars
    /\ \E i \in DOMAIN requests :
        /\ requests[i].st = "pending"
        /\ Settle(i, [kind |-> "malformed"])
    /\ UNCHANGED <<pageVars, location, splashVars, submits, trackingIds, navigations>>

-----------------------------------------------------------------------------
(* Homepage search box *)

\* (variant) the query parameter is misnamed
TrackingPageUrlMisnamed(trackingId) ==
    [pathname |-> "/track-consignment/",
     search |-> "?tracking_id=" \o trackingId]

\* The navigation target
TrackingPageUrl(trackingId) ==
    [pathname |-> "/track-consignment/",
     search |-> "?consignment_number=" \o trackingId]

\* (variant) the emptiness test is missing
IsTruthyAlways(trackingId) == TRUE

\* `if (trackingId)`: a string is truthy unless it is empty
IsTruthy(trackingId) == trackingId # ""

\* 'submit' listener of the homepage form
HomeSubmit ==
    /\ ~unloaded
    /\ UNCHANGED pipelineVars
    /\ "home-tracking-form" \in listeners
    /\ submits.home < MaxHomeSubmits
    /\ submits' = [submits EXCEPT !.home = @ + 1]
    /\ IF getElementById("home-tracking-id") = Null
         THEN /\ errors' = errors \cup {"home-tracking-form submit"}
              /\ DefaultAction(PreventDefault(SubmitEvent))
              /\ UNCHANGED trackingIds
         ELSE /\ \E trackingId \in InputValues :
                    /\ trackingIds' = Append(trackingIds, trackingId)
                    /\ IF IsTruthy(trackingId)
                         THEN /\ location' = TrackingPageUrl(trackingId)
                              /\ navigations' = navigations + 1
                              /\ unloaded' = TRUE
                         ELSE DefaultAction(PreventDefault(SubmitEvent))
              /\ UNCHANGED errors
    /\ UNCHANGED <<present, domReady, loaded, listeners, splashVars, trackVars>>

Next ==
    \/ DOMContentLoaded
    \/ TrackSubmit
    \/ FetchReject
    \/ JsonResolve
    \/ JsonReject
    \/ HomeSubmit
    \/ Load
    \/ DwellTimeout
    \/ FadeTimeout
    \/ Tick

Spec == Init /\ [][Next]_vars

\* The splash controller on its own, with the one action that can replace the
\* document; the tracking actions leave splashVars and `unloaded` unchanged.
\* The event loop runs a timer callback once its delay has elapsed, and time
\* does not stop.
SplashNext ==
    \/ DOMContentLoaded
    \/ Load
    \/ DwellTimeout
    \/ FadeTimeout
    \/ Tick
    \/ HomeSubmit

SplashSpec ==
    /\ Init /\ [][SplashNext]_vars
    /\ WF_vars(Tick) /\ WF_vars(DwellTimeout) /\ WF_vars(FadeTimeout)

-----------------------------------------------------------------------------
(* Video pipeline: run_blender_render.ps1 and run_blender_build.ps1.  Each   *)
(* run is its own PowerShell process; `pc` is the line about to run.         *)

BlenderPath == "C:\\Program Files\\Blender Foundation\\Blender 4.1\\blender.exe"
Blend == "video_pipeline/blender/india_network_scene.blend"
DefaultOut == "main/static/main/videos/Deep_Record.mp4"

\* -BlenderExe and -Out as given on the command line ("" is the default)
ExeArgs == {"", BlenderPath}
OutArgs == {DefaultOut, "renders/hero.mp4"}

\* Exit codes of the Blender process
ExitCodes == {0, 1, -1}

\* `-not $BlenderExe`: the empty string is false
IsEmpty(str) == str = ""

\* Test-Path
TestPath(path) == path \in files

\* (variant) `-gt 0` in place of `-ne 0`
GreaterThanZero(code) == code # <<>> /\ code[1] > 0

\* `$LASTEXITCODE -ne 0`; $LASTEXITCODE is $null (here <<>>) until a native
\* command has run in the process, and `$null -ne 0` is true
NotZero(code) == code = <<>> \/ code[1] # 0

\* `exit $LASTEXITCODE`: the process exit code (`exit $null` exits with 0)
ExitWith(code) == IF code = <<>> THEN 0 ELSE code[1]

\* A script process at its first statement after param(...)
Process(script, line, exe, out) ==
    [script |-> script, pc |-> line, BlenderExe |-> exe, Out |-> out,
     LASTEXITCODE |-> <<>>, invoked |-> FALSE, blenderExit |-> <<>>]

\* The running script ends: by `throw` (exit code 1), by `exit`, or by
\* running off its last line
Finish(thrown, code, host) ==
    /\ lastRun' = [script |-> ps.script, BlenderExe |-> ps.BlenderExe,
                   Out |-> ps.Out, thrown |-> thrown, exit |-> code,
                   host |-> host, invoked |-> ps.invoked,
                   blenderExit |-> ps.blenderExit,
                   exeExists |-> TestPath(ps.BlenderExe),
                   blendExists |-> TestPath(Blend)]
    /\ ps' = Idle

Throw(message) == Finish(message, 1, <<>>)

Goto(line) == ps' = [ps EXCEPT !.pc = line] /\ UNCHANGED lastRun

\* `& $BlenderExe ...`: Blender runs and exits with some code, or the path
\* cannot be started (a directory, not an executable): the statement fails,
\* $LASTEXITCODE keeps its value and the script goes on
CallBlender(line) ==
    \E started \in BOOLEAN, code \in ExitCodes :
        ps' = IF started
              THEN [ps EXCEPT !.pc = line, !.invoked = TRUE,
                              !.LASTEXITCODE = <<code>>, !.blenderExit = <<code>>]
              ELSE [ps EXCEPT !.pc = line, !.invoked = TRUE]

\* powershell -File video_pipeline/run_blender_render.ps1 [-BlenderExe ..] [-Out ..]
RenderStart ==
    /\ ps = Idle /\ runs < MaxRuns
    /\ runs' = runs + 1
    /\ \E exe \in ExeArgs, out \in OutArgs : ps' = Process("render", 6, exe, out)
    /\ UNCHANGED <<webVars, files, lastRun>>

\* lines 6-8
RenderCheckExe ==
    /\ ps.script = "render" /\ ps.pc = 6
    /\ IF IsEmpty(ps.BlenderExe)
         THEN Throw("Blender not found on PATH. Re-run with -BlenderExe <full path to blender.exe>")
         ELSE Goto(10)
    /\ UNCHANGED <<webVars, files, runs>>

\* lines 10-12
RenderCheckPath ==
    /\ ps.script = "render" /\ ps.pc = 10
    /\ IF ~TestPath(ps.BlenderExe)
         THEN Throw("BlenderExe not found: " \o ps.BlenderExe)
         ELSE Goto(15)
    /\ UNCHANGED <<webVars, files, runs>>

\* lines 14-17
RenderCheckBlend ==
    /\ ps.script = "render" /\ ps.pc = 15
    /\ IF ~TestPath(Blend)
         THEN Throw("Missing " \o Blend \o ". Run video_pipeline/run_blender_build.ps1 first (and optionally edit in Blender UI).")
         ELSE Goto(19)
    /\ UNCHANGED <<webVars, files, runs>>

\* line 19
RenderInvoke ==
    /\ ps.script = "render" /\ ps.pc = 19
    /\ CallBlender(20)
    /\ UNCHANGED <<webVars, files, lastRun, runs>>

\* line 20
RenderCheckExit ==
    /\ ps.script = "render" /\ ps.pc = 20
    /\ IF NotZero(ps.LASTEXITCODE)
         THEN Finish("", ExitWith(ps.LASTEXITCODE), <<>>)
         ELSE Goto(22)
    /\ UNCHANGED <<webVars, files, runs>>

\* line 22
RenderReport ==
    /\ ps.script = "render" /\ ps.pc = 22
    /\ Finish("", 0, <<"Rendered: " \o ps.Out>>)
    /\ UNCHANGED <<webVars, files, runs>>

\* powershell -File video_pipeline/run_blender_build.ps1 [-BlenderExe ..]
BuildStart ==
    /\ ps = Idle /\ runs < MaxRuns
    /\ runs' = runs + 1
    /\ \E exe \in ExeArgs : ps' = Process("build", 29, exe, "")
    /\ UNCHANGED <<webVars, files, lastRun>>

\* lines 29-31
BuildCheckExe ==
    /\ ps.script = "build" /\ ps.pc = 29
    /\ IF IsEmpty(ps.BlenderExe)
         THEN Throw("Blender not found on PATH. Re-run with -BlenderExe <full path to blender.exe>")
         ELSE Goto(33)
    /\ UNCHANGED <<webVars, files, runs>>

\* lines 33-35
BuildCheckPath ==
    /\ ps.script = "build" /\ ps.pc = 33
    /\ IF ~TestPath(ps.BlenderExe)
         THEN Throw("BlenderExe not found: " \o ps.BlenderExe)
         ELSE Goto(37)
    /\ UNCHANGED <<webVars, files, runs>>

\* line 37: build_scene.py may or may not have saved the scene, whatever the
\* exit code
BuildInvoke ==
    /\ ps.script = "build" /\ ps.pc = 37
    /\ CallBlender(38)
    /\ \E saved \in BOOLEAN :
          files' = IF saved /\ ps'.blenderExit # <<>> THEN files \cup {Blend}
                   ELSE files
    /\ UNCHANGED <<webVars, lastRun, runs>>

\* line 38
BuildCheckExit ==
    /\ ps.script = "build" /\ ps.pc = 38
    /\ IF NotZero(ps.LASTEXITCODE)
         THEN Finish("", ExitWith(ps.LASTEXITCODE), <<>>)
         ELSE Goto(40)
    /\ UNCHANGED <<webVars, files, runs>>

\* line 40
BuildReport ==
    /\ ps.script = "build" /\ ps.pc = 40
    /\ Finish("", 0, <<"Created: " \o Blend>>)
    /\ UNCHANGED <<webVars, files, runs>>

\* A working copy before any script has run; the page is not involved
PipelineInit ==
    /\ files \in SUBSET {BlenderPath, Blend}
    /\ ps = Idle /\ lastRun = NoRun /\ runs = 0
    /\ present = {} /\ location = [pathname |-> "/", search |-> ""]
    /\ unloaded = FALSE /\ domReady = FALSE /\ loaded = FALSE
    /\ listeners = {} /\ opacity = "" /\ display = ""
    /\ timers = NoTimers /\ elapsed = 0
    /\ requests = <<>> /\ innerHTML = <<>> /\ lastSettled = NoneSettled
    /\ console = {} /\ errors = {}
    /\ submits = [track |-> 0, home |-> 0]
    /\ trackingIds = <<>> /\ navigations = 0

PipelineNext ==
    \/ RenderStart
    \/ RenderCheckExe
    \/ RenderCheckPath
    \/ RenderCheckBlend
    \/ RenderInvoke
    \/ RenderCheckExit
    \/ RenderReport
    \/ BuildStart
    \/ BuildCheckExe
    \/ BuildCheckPath
    \/ BuildInvoke
    \/ BuildCheckExit
    \/ BuildReport

PipelineSpec == PipelineInit /\ [][PipelineNext]_vars

-----------------------------------------------------------------------------
(* Properties *)

Last(seq) == seq[Len(seq)]
Pieces(html) == {html[i] : i \in 1..Len(html)}
Count(html, piece) == Cardinality({i \in 1..Len(html) : html[i] = piece})

\* `value` is rendered in `html` right after `heading`
Labelled(html, heading, value) ==
    \E i \in 1..(Len(html) - 1) : html[i] = heading /\ html[i + 1] = value

ConsignmentFields ==
    {"consignment_number", "status", "origin", "destination",
     "current_location", "estimated_delivery", "updated_at"}

Heading(field) ==
    CASE field = "consignment_number" -> "<h4>Tracking Details for "
      [] field = "status" -> "<p><strong>Status:</strong> "
      [] field = "origin" -> "<p><strong>Origin:</strong> "
      [] field = "destination" -> "<p><strong>Destination:</strong> "
      [] field = "current_location" -> "<p><strong>Current Location:</strong> "
      [] field = "estimated_delivery" -> "<p><strong>Estimated Delivery:</strong> "
      [] field = "updated_at" -> "<p><em>Last Updated: "

\* A consignment object with all seven fields, each a string
IsWellFormed(c) ==
    /\ c.t = "object"
    /\ \A k \in ConsignmentFields : k \in DOMAIN c.f /\ c.f[k].t = "string"

PanelPresent == "tracking-result" \in present
Settled == lastSettled.outcome
Parsed == Settled.kind = "parsed"

\* C1: the panel equals the rendering of the most recently settled response
\* alone, whatever was rendered before and whatever the submission order.
C1_LastSettledWins ==
    (PanelPresent /\ lastSettled.id # 0) =>
        LET w == RunChain(Settled, getElementById("tracking-result")).writes
        IN  Len(w) = 1 /\ innerHTML = w[1]

\* The first submission settles after the second, whose failure panel it replaces
C1_Witness ==
    /\ PanelPresent
    /\ Len(requests) = 2
    /\ requests[2].st = "done"
    /\ lastSettled.id = 1
    /\ console = {"timeout"}
    /\ Parsed /\ Get(Settled.data, "consignment") = WellFormed
    /\ innerHTML[1] = AlertSuccess
    /\ Count(innerHTML, AlertDanger) = 0

\* C2: a "success" response with a well-formed consignment renders the success
\* panel with each of the seven values right after its heading, and no
\* failure panel.
C2_SuccessPanelShowsAllFields ==
    (PanelPresent /\ Parsed /\ CanRead(Settled.data)
       /\ Get(Settled.data, "status") = Str("success")
       /\ IsWellFormed(Get(Settled.data, "consignment"))) =>
        LET c == Get(Settled.data, "consignment") IN
        /\ innerHTML[1] = AlertSuccess
        /\ \A k \in ConsignmentFields : Labelled(innerHTML, Heading(k), c.f[k].v)
        /\ Count(innerHTML, AlertDanger) = 0

C2_Witness ==
    /\ PanelPresent /\ Parsed
    /\ Settled.data = Obj([status |-> Str("success"), consignment |-> WellFormed])
    /\ Labelled(innerHTML, "<p><strong>Origin:</strong> ", "Nagpur")
    /\ Labelled(innerHTML, "<p><em>Last Updated: ", "10 Jan 2026 09:30")

\* What C3 asks of the panel for the parsed body `data`
ShowsOnlyMessage(data) ==
    /\ innerHTML = <<AlertDanger, ToString(Get(data, "message")), "</div>">>
    /\ Count(innerHTML, AlertDanger) = 1
    /\ Count(innerHTML, AlertSuccess) = 0
    /\ \A k \in ConsignmentFields : Heading(k) \notin Pieces(innerHTML)

\* C3 as stated: every body that parses as JSON and whose status is not
\* "success" (or is missing) renders exactly one failure panel with the
\* body's message and no consignment field.
C3_AsStated ==
    (PanelPresent /\ Parsed /\ Get(Settled.data, "status") # Str("success")) =>
        ShowsOnlyMessage(Settled.data)

\* C3 (amended): the same for every parsed body other than JSON null.
C3_NonSuccessShowsMessage ==
    (PanelPresent /\ Parsed /\ Settled.data # Null
       /\ Get(Settled.data, "status") # Str("success")) =>
        ShowsOnlyMessage(Settled.data)

C3_Witness ==
    /\ PanelPresent /\ Parsed
    /\ Settled.data = Obj([status |-> Str("failure"), message |-> Str("Not found"),
                            consignment |-> WellFormed])
    /\ innerHTML = <<AlertDanger, "Not found", "</div>">>

\* C4: a rejected request or a body that is not valid JSON logs the error and
\* renders the fixed fallback panel, whatever the kind of failure.
C4_FallbackOnTransportFailure ==
    /\ (Settled.kind = "rejected" => Settled.reason \in console)
    /\ (Settled.kind = "malformed" => SyntaxError \in console)
    /\ (PanelPresent /\ Settled.kind \in {"rejected", "malformed"}) =>
          innerHTML = <<AlertDanger, "An error occurred. Please try again.", "</div>">>

C4_Witness ==
    /\ PanelPresent
    /\ Settled = [kind |-> "rejected", reason |-> "network down"]
    /\ {"network down", SyntaxError} \subseteq console
    /\ innerHTML = <<AlertDanger, "An error occurred. Please try again.", "</div>">>

\* C5: a homepage submission with a non-empty value v navigates exactly once,
\* to "/track-consignment/?consignment_number=" followed by v verbatim, and
\* issues no request.
C5_HomeSubmitNavigates ==
    [][(Len(trackingIds') = Len(trackingIds) + 1 /\ Last(trackingIds') # "") =>
          /\ Href(location') =
                "/track-consignment/?consignment_number=" \o Last(trackingIds')
          /\ navigations' = navigations + 1
          /\ requests' = requests]_vars

C5_Witness ==
    /\ trackingIds = <<"ABC123">>
    /\ Href(location) = "/track-consignment/?consignment_number=ABC123"
    /\ navigations = 1
    /\ Len(requests) = 1 /\ requests[1].st = "pending"

\* C6: a homepage submission with an empty value navigates nowhere and leaves
\* the location, the panel, the requests and the rest of the page as they were.
C6_EmptyHomeSubmitChangesNothing ==
    [][(Len(trackingIds') = Len(trackingIds) + 1 /\ Last(trackingIds') = "") =>
          UNCHANGED <<location, navigations, innerHTML, requests, lastSettled,
                      console, errors, pageVars, splashVars>>]_vars

C6_Witness ==
    /\ trackingIds = <<"">>
    /\ navigations = 0 /\ ~unloaded
    /\ Len(requests) = 2 /\ requests[1].st = "pending" /\ requests[2].st = "done"
    /\ innerHTML # <<>>

\* C8: a missing element is never an error: no handler or callback raises,
\* and without the splash element the load handler schedules and changes
\* nothing.
C8_MissingElementsNeverRaise ==
    /\ errors = {}
    /\ "splash-screen" \notin present =>
          (timers = NoTimers /\ opacity = "" /\ display = "" /\ elapsed = 0)

\* C9: a response whose status is "success" always renders the success panel
\* and never a failure panel, also when the consignment is missing or null.
C9_SuccessNeverShowsFailure ==
    (PanelPresent /\ Parsed /\ CanRead(Settled.data)
       /\ Get(Settled.data, "status") = Str("success")) =>
        /\ innerHTML # <<>> /\ innerHTML[1] = AlertSuccess
        /\ Count(innerHTML, AlertDanger) = 0

\* C10: with the input on the page, every submission of the tracking form
\* issues exactly one request, to <pathname>?consignment_number=<value> (the
\* empty value included), none is retried, merged or cancelled, and every
\* settled request has written the panel exactly once.
C10_OneRequestPerSubmission ==
    ("consignment_number" \in present) =>
        /\ Len(requests) = submits.track
        /\ \A i \in DOMAIN requests :
              /\ ~unloaded =>
                    requests[i].url =
                        location.pathname \o "?consignment_number=" \o requests[i].value
              /\ requests[i].st \in {"pending", "done"}
              /\ requests[i].st = "pending" => requests[i].writes = 0
              /\ (PanelPresent /\ requests[i].st = "done") => requests[i].writes = 1

C10_Witness ==
    /\ PanelPresent
    /\ location.search # ""
    /\ submits.track = 2 /\ Len(requests) = 2
    /\ requests[1].value = "" /\ requests[2].value = ""
    /\ requests[1].url = "/track-consignment/?consignment_number="
    /\ requests[1].st = "done" /\ requests[1].writes = 1
    /\ requests[2].st = "done" /\ requests[2].writes = 1

\* C11: a submission of the tracking form leaves the panel as it was; the
\* panel changes only in a step in which a pending request settles (its
\* response or failure callback runs), so while requests stay pending the
\* panel keeps its previous content.
C11_PanelChangesOnlyOnSettle ==
    [][/\ (submits'.track = submits.track + 1) => (innerHTML' = innerHTML)
       /\ (innerHTML' # innerHTML) =>
             \E i \in DOMAIN requests :
                 requests[i].st = "pending" /\ requests'[i].st = "done"]_vars

\* A second submission is pending and the panel still shows the first response
C11_Witness ==
    /\ PanelPresent
    /\ submits.track = 2 /\ Len(requests) = 2
    /\ requests[1].st = "done" /\ requests[2].st = "pending"
    /\ lastSettled.id = 1
    /\ innerHTML = <<AlertDanger, "Not found", "</div>">>

\* A step in which the outer (dwell) / inner (fade) timer callback runs
DwellStep == timers.dwell = 0 /\ timers'.dwell = -1
FadeStep == timers.fade = 0 /\ timers'.fade = -1

\* C12: the splash sequence is strictly ordered. Opacity is set to 0 only by
\* the dwell callback, 3000 ms after load, which starts the 1000 ms fade timer
\* in the same step; display is set to none only by that fade timer's
\* callback, after opacity is 0; the element is never non-displayed while its
\* opacity is not 0; and each callback runs at most once per load (timers are
\* started only by 'load' and by the dwell callback, and each callback finds
\* its own effect not yet made).
C12_SplashSequenceOrdered ==
    /\ [](display = "none" => opacity = "0")
    /\ [][/\ (opacity' # opacity) =>
               (DwellStep /\ loaded /\ elapsed = SplashDuration
                  /\ opacity' = "0" /\ timers'.fade = FadeDuration)
          /\ (display' # display) =>
               (FadeStep /\ opacity = "0" /\ display' = "none"
                  /\ elapsed = SplashDuration + FadeDuration)
          /\ DwellStep => (opacity = "" /\ display = "")
          /\ FadeStep => (display = "" /\ timers'.dwell = -1)
          /\ (timers'.dwell > timers.dwell) => (~loaded /\ loaded')
          /\ (timers'.fade > timers.fade) => DwellStep
          /\ loaded => loaded']_vars

\* The fade has begun and the element is still displayed
C12_Witness ==
    /\ "splash-screen" \in present /\ loaded
    /\ opacity = "0" /\ display = ""
    /\ timers = [dwell |-> -1, fade |-> 1000]
    /\ elapsed = 3000

\* A homepage submission that read a non-empty value
HomeSubmitStep ==
    /\ submits'.home = submits.home + 1
    /\ Len(trackingIds') = Len(trackingIds) + 1
    /\ Last(trackingIds') # ""

\* C13: no submission of the tracking form and no response to one changes the
\* browser location; the location changes (a navigation starts) only in a
\* homepage submission that read a non-empty value.
C13_OnlyHomeSubmitNavigates ==
    [][/\ (location' # location \/ navigations' # navigations
             \/ unloaded' # unloaded) => HomeSubmitStep
       /\ (submits'.track # submits.track \/ requests' # requests) =>
             (location' = location /\ navigations' = navigations
                /\ unloaded' = unloaded)]_vars

\* Two tracking submissions, a failure and an error response, and the
\* document is still where it was
C13_Witness ==
    /\ submits.track = 2 /\ Len(requests) = 2
    /\ requests[1].st = "done" /\ requests[2].st = "done"
    /\ console = {"timeout", "TypeError"}
    /\ navigations = 0 /\ ~unloaded
    /\ Href(location) = "/track-consignment/?consignment_number=ABC123"

\* The last finished run was the render script and it printed "Rendered: <out>"
RenderedReported ==
    lastRun.script = "render" /\ lastRun.host = <<"Rendered: " \o lastRun.Out>>

\* C14: the render script prints "Rendered: <out>" only if a Blender path was
\* given, that path exists, the scene file exists and Blender exited with
\* code 0; if one of the first three fails the script throws and Blender is
\* never invoked; and a non-zero exit code of Blender is the script's exit
\* code (and nothing is reported).
C14_RenderReportsOnlyOnSuccess ==
    (lastRun.script = "render") =>
        /\ RenderedReported =>
              (lastRun.BlenderExe # "" /\ lastRun.exeExists /\ lastRun.blendExists
                 /\ lastRun.blenderExit = <<0>> /\ lastRun.thrown = ""
                 /\ lastRun.exit = 0)
        /\ (lastRun.BlenderExe = "" \/ ~lastRun.exeExists \/ ~lastRun.blendExists) =>
              (lastRun.thrown # "" /\ ~lastRun.invoked /\ lastRun.host = <<>>)
        /\ (lastRun.blenderExit # <<>> /\ lastRun.blenderExit # <<0>>) =>
              (lastRun.exit = lastRun.blenderExit[1] /\ lastRun.host = <<>>)

\* A failed build, a build that saved the scene, then a render that succeeded
C14_Witness ==
    /\ runs = 3
    /\ RenderedReported
    /\ lastRun.host = <<"Rendered: main/static/main/videos/Deep_Record.mp4">>
    /\ lastRun.blenderExit = <<0>>
    /\ files = {BlenderPath, Blend}

\* C7: if the splash element is present when 'load' fires it is eventually
\* hidden (unless the document is replaced first), and it is hidden no earlier
\* than 3000 ms and no later than 4000 ms after load.
C7_SplashHiddenWithinWindow ==
    /\ [](display = "none" => (elapsed >= 3000 /\ elapsed <= 4000))
    /\ [](("splash-screen" \in present /\ loaded)
            => <>(display = "none" \/ unloaded))

C7_Witness ==
    /\ "splash-screen" \in present
    /\ loaded /\ ~unloaded
    /\ display = "none"
    /\ elapsed = 4000

====
